---- MODULE Spec2Model ----
(***************************************************************************)
(* x402 "exact" scheme on Solana: the facilitator's verify_payment and     *)
(* settle_payment (schemes/exact_svm/facilitator.py), the transaction      *)
(* codec (shared/svm/transaction.py) and the gateway functions             *)
(* (shared/svm/rpc.py).                                                    *)
(*                                                                         *)
(* One invocation of an entry point is modelled at a time: Init draws the  *)
(* entry point and its arguments, the actions are the steps of the call.   *)
(* Python's None is the string "None"; an optional value that may be a     *)
(* record is a sequence of length 0 (absent) or 1 (present).               *)
(***************************************************************************)
EXTENDS Integers, Sequences, FiniteSets, TLC

VARIABLES
    call,                 \* entry point invoked
    gateway,              \* replies the gateway gives to each JSON-RPC method
    payload,              \* PaymentPayload argument
    payment_requirements, \* PaymentRequirements argument
    pc,                   \* position inside the invocation
    exc,                  \* exception raised inside verify_payment's try block
    raised,               \* exception that left the entry point
    verify_response,      \* VerifyResponse returned by verify_payment
    settle_response,      \* SettleResponse returned by settle_payment
    send_result,          \* tuple returned by send_and_confirm_transaction
    signature,            \* signature obtained from sendTransaction
    attempt,              \* loop variable of the confirmation wait
    events,               \* functions and gateway methods entered so far
    sendCalls,            \* sendTransaction requests posted
    pollCalls,            \* getSignatureStatuses requests posted
    signerCalls,          \* signer.sign_message invocations
    submitted,            \* transaction handed to send_and_confirm_transaction
    arg,                  \* argument of a function or constructor called directly
    ret,                  \* what that call returned or raised
    suspended             \* invocations waiting at a suspension point

vars == <<call, gateway, payload, payment_requirements, pc, exc, raised,
          verify_response, settle_response, send_result, signature, attempt,
          events, sendCalls, pollCalls, signerCalls, submitted, arg, ret,
          suspended>>

None == "None"

(***************************************************************************)
(* Bounds of the model                                                     *)
(***************************************************************************)
MaxInstructions == 4   \* transactions carry 0..MaxInstructions instructions
AmountSlack == 1       \* transfer amounts range over Required -/+ AmountSlack

(***************************************************************************)
(* Program constants                                                       *)
(***************************************************************************)
max_attempts == 40
MaxMicroLamports == 5000000
Required == 1000000
BuilderPrice == 1000000
MinTransferData == 9

COMPUTE_BUDGET_PROGRAM_ID == "ComputeBudget111111111111111111111111111111"
TOKEN_PROGRAM == "TokenkegQfeZyiNwAJbNbGKPFXCWuBvf9Ss623VQ5DA"
TOKEN_2022_PROGRAM == "TokenzQdBNbLqP5VEhdkAW6Q5YdDaTKSHvHjKAE9zZPJU"
SYSTEM_PROGRAM == "11111111111111111111111111111111"

ERROR_REASONS ==
    { "unsupported_scheme",
      "invalid_network",
      "invalid_exact_svm_payload_transaction",
      "invalid_exact_svm_payload_transaction_instructions_length",
      "invalid_exact_svm_payload_transaction_instructions",
      "invalid_exact_svm_payload_transaction_instructions_compute_limit_instruction",
      "invalid_exact_svm_payload_transaction_instructions_compute_price_instruction",
      "invalid_exact_svm_payload_transaction_instructions_compute_price_instruction_too_high",
      "invalid_exact_svm_payload_transaction_create_ata_instruction",
      "invalid_exact_svm_payload_transaction_create_ata_instruction_incorrect_payee",
      "invalid_exact_svm_payload_transaction_create_ata_instruction_incorrect_asset",
      "invalid_exact_svm_payload_transaction_transfer_to_incorrect_ata",
      "invalid_exact_svm_payload_transaction_sender_ata_not_found",
      "invalid_exact_svm_payload_transaction_receiver_ata_not_found",
      "invalid_exact_svm_payload_transaction_amount_mismatch",
      "invalid_exact_svm_payload_transaction_instruction_not_spl_token_transfer_checked",
      "invalid_exact_svm_payload_transaction_instruction_not_token_2022_transfer_checked",
      "invalid_exact_svm_payload_transaction_not_a_transfer_instruction",
      "invalid_exact_svm_payload_transaction_simulation_failed",
      "unexpected_verify_error",
      "unexpected_settle_error" }

(***************************************************************************)
(* Exceptions: a type and the text str(e) yields.  ValueError and its      *)
(* subclasses (pydantic's ValidationError) are caught by "except           *)
(* ValueError"; struct.error, NameError and KeyError are not.              *)
(***************************************************************************)
Exception(type, msg) == [type |-> type, msg |-> msg]
ValueError(msg) == Exception("ValueError", msg)
IsValueError(e) == e.type \in {"ValueError", "ValidationError"}

(***************************************************************************)
(* struct.pack("<Q", n) and struct.unpack("<Q", b): 8 bytes, little        *)
(* endian.  The model's amounts and prices stay below 2^31, so bytes 5..8  *)
(* are zero; unpack is evaluated high byte first.                          *)
(***************************************************************************)
PackU64LE(n) ==
    << n % 256, (n \div 256) % 256, (n \div 65536) % 256,
       (n \div 16777216) % 256, 0, 0, 0, 0 >>

UnpackU64LE(b) ==
    b[1] + 256 * (b[2] + 256 * (b[3] + 256 * (b[4] + 256 * (b[5] + 256 *
        (b[6] + 256 * (b[7] + 256 * b[8]))))))

\* Python slice data[1:9] of a byte sequence (0-based, end exclusive, clipped)
Slice1To9(data) ==
    IF Len(data) <= 1 THEN <<>>
    ELSE SubSeq(data, 2, IF Len(data) < 9 THEN Len(data) ELSE 9)

(***************************************************************************)
(* Decimal strings: str(n) and int(s).  int() raises ValueError on a       *)
(* string that is not an optional sign followed by digits.                 *)
(***************************************************************************)
DigitChars == <<"0", "1", "2", "3", "4", "5", "6", "7", "8", "9">>

RECURSIVE DecimalString(_)
DecimalString(n) ==
    IF n < 10 THEN <<DigitChars[n + 1]>>
    ELSE Append(DecimalString(n \div 10), DigitChars[(n % 10) + 1])

DigitValue(c) == CHOOSE d \in 0..9 : DigitChars[d + 1] = c
IsDigit(c) == \E d \in 0..9 : DigitChars[d + 1] = c

AllDigits(s) == Len(s) > 0 /\ \A i \in 1..Len(s) : IsDigit(s[i])

RECURSIVE DigitsValue(_)
DigitsValue(s) ==
    IF Len(s) = 0 THEN 0
    ELSE 10 * DigitsValue(SubSeq(s, 1, Len(s) - 1)) + DigitValue(s[Len(s)])

IntParses(s) ==
    \/ AllDigits(s)
    \/ Len(s) > 1 /\ s[1] \in {"-", "+"} /\ AllDigits(Tail(s))

IntOf(s) ==
    IF s[1] = "-" THEN 0 - DigitsValue(Tail(s))
    ELSE IF s[1] = "+" THEN DigitsValue(Tail(s))
    ELSE DigitsValue(s)

(***************************************************************************)
(* Transactions.  A message is a table of account keys and a list of       *)
(* compiled instructions; an instruction names its program and accounts by *)
(* 0-based index into the table and carries a data buffer.                 *)
(***************************************************************************)
Instruction(program_id_index, accounts, data) ==
    [program_id_index |-> program_id_index, accounts |-> accounts, data |-> data]

Transaction(account_keys, instructions, signatures) ==
    [account_keys |-> account_keys, instructions |-> instructions,
     signatures |-> signatures]

AccountAt(tx, i) == tx.account_keys[i + 1]
ProgramId(tx, ix) == AccountAt(tx, ix.program_id_index)

(***************************************************************************)
(* Transaction codec (shared/svm/transaction.py).  An encoded string is    *)
(* one base64.b64decode accepts (b64) or raises on, and its bytes either   *)
(* parse as one transaction (wire of length 1) or make from_bytes raise.   *)
(***************************************************************************)
encode_transaction_to_base64(tx) == [b64 |-> TRUE, wire |-> <<tx>>]

\* variant: the parser's own exception let through
decode_transaction_from_base64_Raw(encoded) ==
    IF encoded.b64 /\ Len(encoded.wire) = 1
    THEN [exc |-> <<>>, value |-> encoded.wire]
    ELSE [exc |-> <<ValueError("Incorrect padding")>>, value |-> <<>>]

decode_transaction_from_base64(encoded) ==
    IF encoded.b64 /\ Len(encoded.wire) = 1
    THEN [exc |-> <<>>, value |-> encoded.wire]
    ELSE [exc |-> <<ValueError("invalid_exact_svm_payload_transaction")>>,
          value |-> <<>>]

decode_transaction_from_payload(svm_payload) ==
    decode_transaction_from_base64(svm_payload.transaction)

IsTokenProgram(key) == key = TOKEN_PROGRAM \/ key = TOKEN_2022_PROGRAM

\* Transaction.from_bytes deserializes without sanitizing: an instruction of
\* a decoded transaction may name an index outside the account table, and
\* static_accounts[index] then raises IndexError
InTable(tx, i) == i < Len(tx.account_keys)

\* the loop of get_token_payer_from_transaction from instruction i on: the
\* exception it raises (exc) or the value it returns
RECURSIVE PayerScan(_, _)
PayerScan(tx, i) ==
    IF i > Len(tx.instructions) THEN [exc |-> <<>>, value |-> None]
    ELSE LET ix == tx.instructions[i]
         IN IF ~InTable(tx, ix.program_id_index)
            THEN [exc |-> <<Exception("IndexError", "list index out of range")>>,
                  value |-> None]
            ELSE IF /\ IsTokenProgram(ProgramId(tx, ix))
                    /\ Len(ix.accounts) >= 4
                    /\ InTable(tx, ix.accounts[4])
            THEN [exc |-> <<>>, value |-> AccountAt(tx, ix.accounts[4])]
            ELSE PayerScan(tx, i + 1)

get_token_payer_from_transaction(tx) == PayerScan(tx, 1)

\* variant: the first account key stands in when the extraction raises
BestEffortPayer_FeePayerInstead(p) ==
    LET d == decode_transaction_from_payload(p.payload)
    IN IF d.exc # <<>> THEN None
       ELSE LET r == get_token_payer_from_transaction(d.value[1])
            IN IF r.exc # <<>> THEN d.value[1].account_keys[1] ELSE r.value

\* "try: payer = get_token_payer_from_transaction(decode(...)) except: None"
BestEffortPayer(p) ==
    LET d == decode_transaction_from_payload(p.payload)
    IN IF d.exc # <<>> THEN None
       ELSE LET r == get_token_payer_from_transaction(d.value[1])
            IN IF r.exc # <<>> THEN None ELSE r.value

(***************************************************************************)
(* Instruction validator (schemes/exact_svm/facilitator.py).  Each check   *)
(* yields the exception it raises, or <<>> when it passes.                 *)
(***************************************************************************)
\* variant: the network comparison placed before the scheme comparison
verify_schemes_and_networks_NetworkFirst(p, req) ==
    IF p.network # req.network
    THEN <<ValueError("invalid_network")>>
    ELSE IF p.scheme # "exact" \/ req.scheme # "exact"
    THEN <<ValueError("unsupported_scheme")>>
    ELSE IF req.network \notin {"solana", "solana-devnet"}
    THEN <<ValueError("invalid_network")>>
    ELSE <<>>

verify_schemes_and_networks(p, req) ==
    IF p.scheme # "exact" \/ req.scheme # "exact"
    THEN <<ValueError("unsupported_scheme")>>
    ELSE IF p.network # req.network
    THEN <<ValueError("invalid_network")>>
    ELSE IF req.network \notin {"solana", "solana-devnet"}
    THEN <<ValueError("invalid_network")>>
    ELSE <<>>

\* variant: a price equal to the ceiling counts as too high
verify_compute_budget_instructions_CeilingExclusive(tx, instructions) ==
    IF Len(instructions) # 2
    THEN <<ValueError("invalid_exact_svm_payload_transaction_instructions_length")>>
    ELSE LET price_ix == instructions[1]
         IN IF ProgramId(tx, price_ix) # COMPUTE_BUDGET_PROGRAM_ID
            THEN <<ValueError("invalid_exact_svm_payload_transaction_instructions_compute_price_instruction")>>
            ELSE IF Len(price_ix.data) > 1 /\ price_ix.data[1] = 3
            THEN IF Len(Slice1To9(price_ix.data)) # 8
                 THEN <<Exception("struct.error", "unpack requires a buffer of 8 bytes")>>
                 ELSE IF UnpackU64LE(Slice1To9(price_ix.data)) >= MaxMicroLamports
                 THEN <<ValueError("invalid_exact_svm_payload_transaction_instructions_compute_price_instruction_too_high")>>
                 ELSE <<>>
            ELSE <<>>

verify_compute_budget_instructions(tx, instructions) ==
    IF Len(instructions) # 2
    THEN <<ValueError("invalid_exact_svm_payload_transaction_instructions_length")>>
    ELSE LET price_ix == instructions[1]
         IN IF ProgramId(tx, price_ix) # COMPUTE_BUDGET_PROGRAM_ID
            THEN <<ValueError("invalid_exact_svm_payload_transaction_instructions_compute_price_instruction")>>
            ELSE IF Len(price_ix.data) > 1 /\ price_ix.data[1] = 3
            THEN IF Len(Slice1To9(price_ix.data)) # 8
                 THEN <<Exception("struct.error", "unpack requires a buffer of 8 bytes")>>
                 ELSE IF UnpackU64LE(Slice1To9(price_ix.data)) > MaxMicroLamports
                 THEN <<ValueError("invalid_exact_svm_payload_transaction_instructions_compute_price_instruction_too_high")>>
                 ELSE <<>>
            ELSE <<>>

\* variant: the amount unpacked without the length of the data being tested
verify_transfer_instruction_NoLengthCheck(tx, instruction, req) ==
    IF ~IsTokenProgram(ProgramId(tx, instruction))
    THEN <<ValueError("invalid_exact_svm_payload_transaction_not_a_transfer_instruction")>>
    ELSE IF Len(Slice1To9(instruction.data)) # 8
    THEN <<Exception("struct.error", "unpack requires a buffer of 8 bytes")>>
    ELSE IF ~IntParses(req.max_amount_required)
    THEN <<ValueError("invalid literal for int() with base 10")>>
    ELSE IF UnpackU64LE(Slice1To9(instruction.data)) < IntOf(req.max_amount_required)
    THEN <<ValueError("invalid_exact_svm_payload_transaction_amount_mismatch")>>
    ELSE <<>>

verify_transfer_instruction(tx, instruction, req) ==
    IF ~IsTokenProgram(ProgramId(tx, instruction))
    THEN <<ValueError("invalid_exact_svm_payload_transaction_not_a_transfer_instruction")>>
    ELSE IF Len(instruction.data) < MinTransferData
    THEN <<ValueError("invalid_exact_svm_payload_transaction_instructions")>>
    ELSE IF ~IntParses(req.max_amount_required)
    THEN <<ValueError("invalid literal for int() with base 10")>>
    ELSE IF UnpackU64LE(Slice1To9(instruction.data)) < IntOf(req.max_amount_required)
    THEN <<ValueError("invalid_exact_svm_payload_transaction_amount_mismatch")>>
    ELSE <<>>

\* variant: two instructions are enough to pass the count check
transaction_introspection_TwoSuffice(svm_payload, req) ==
    LET d == decode_transaction_from_payload(svm_payload)
    IN IF d.exc # <<>> THEN d.exc
       ELSE LET tx == d.value[1]
                instructions == tx.instructions
            IN IF Len(instructions) < 2 \/ ~InTable(tx, instructions[1].program_id_index)
               THEN <<ValueError("invalid_exact_svm_payload_transaction_instructions_length")>>
               ELSE LET cb == verify_compute_budget_instructions(tx, SubSeq(instructions, 1, 2))
                    IN IF cb # <<>> THEN cb
                       ELSE IF Len(instructions) < 3
                       THEN <<Exception("IndexError", "list index out of range")>>
                       ELSE verify_transfer_instruction(tx, instructions[3], req)

\* transaction_introspection re-decodes the payload; its caller has already
\* decoded the same string, so the decode succeeds here.
transaction_introspection(svm_payload, req) ==
    LET d == decode_transaction_from_payload(svm_payload)
    IN IF d.exc # <<>> THEN d.exc
       ELSE LET tx == d.value[1]
                instructions == tx.instructions
            IN IF Len(instructions) < 3
               THEN <<ValueError("invalid_exact_svm_payload_transaction_instructions_length")>>
               ELSE LET cb == verify_compute_budget_instructions(tx, SubSeq(instructions, 1, 2))
                    IN IF cb # <<>> THEN cb
                       ELSE verify_transfer_instruction(tx, instructions[3], req)

(***************************************************************************)
(* Client payload builder (schemes/exact_svm/client.py): compute-unit      *)
(* price, compute-unit limit, then the fallback SPL Transfer instruction   *)
(* (tag 3, accounts source, destination, authority), signed by the client. *)
(***************************************************************************)
create_transfer_instruction(source, destination, owner, amount) ==
    [program_id |-> TOKEN_PROGRAM,
     accounts |-> <<source, destination, owner>>,
     data |-> <<3>> \o PackU64LE(amount)]

BuilderKeys == <<"Client", "ClientATA", "RecipientATA",
                 COMPUTE_BUDGET_PROGRAM_ID, TOKEN_PROGRAM>>

KeyIndex(keys, k) == (CHOOSE i \in 1..Len(keys) : keys[i] = k) - 1

Compile(keys, ix) ==
    Instruction(KeyIndex(keys, ix.program_id),
                [j \in 1..Len(ix.accounts) |-> KeyIndex(keys, ix.accounts[j])],
                ix.data)

\* variant: the compute-unit limit appended before the price
create_transfer_transaction_LimitFirst(req) ==
    LET price_ix == [program_id |-> COMPUTE_BUDGET_PROGRAM_ID, accounts |-> <<>>,
                     data |-> <<3>> \o PackU64LE(BuilderPrice)]
        limit_ix == [program_id |-> COMPUTE_BUDGET_PROGRAM_ID, accounts |-> <<>>,
                     data |-> <<2, 160, 134, 1, 0>>]
        transfer_ix == create_transfer_instruction(
                           "ClientATA", "RecipientATA", "Client",
                           IntOf(req.max_amount_required))
    IN Transaction(BuilderKeys,
                   <<Compile(BuilderKeys, limit_ix), Compile(BuilderKeys, price_ix),
                     Compile(BuilderKeys, transfer_ix)>>,
                   <<>>)

create_transfer_transaction(req) ==
    LET price_ix == [program_id |-> COMPUTE_BUDGET_PROGRAM_ID, accounts |-> <<>>,
                     data |-> <<3>> \o PackU64LE(BuilderPrice)]
        limit_ix == [program_id |-> COMPUTE_BUDGET_PROGRAM_ID, accounts |-> <<>>,
                     data |-> <<2, 160, 134, 1, 0>>]
        transfer_ix == create_transfer_instruction(
                           "ClientATA", "RecipientATA", "Client",
                           IntOf(req.max_amount_required))
    IN Transaction(BuilderKeys,
                   <<Compile(BuilderKeys, price_ix), Compile(BuilderKeys, limit_ix),
                     Compile(BuilderKeys, transfer_ix)>>,
                   <<>>)

create_payment_payload(req) ==
    LET unsigned == create_transfer_transaction(req)
        signed == Transaction(unsigned.account_keys, unsigned.instructions,
                              <<"sig:Client">>)
    IN [x402_version |-> 1, scheme |-> req.scheme, network |-> req.network,
        payload |-> [transaction |-> encode_transaction_to_base64(signed)]]

(***************************************************************************)
(* Arguments the entry points are called with                              *)
(***************************************************************************)
Keys == <<"Client", "ClientATA", "RecipientATA", "Mint",
          COMPUTE_BUDGET_PROGRAM_ID, TOKEN_PROGRAM, TOKEN_2022_PROGRAM,
          SYSTEM_PROGRAM>>

Amounts == (Required - AmountSlack)..(Required + AmountSlack)

PriceDatas ==
    { <<3>> \o PackU64LE(BuilderPrice),
      <<3>> \o PackU64LE(MaxMicroLamports),
      <<3>> \o PackU64LE(MaxMicroLamports + 1),
      <<3, 1, 2>>,
      <<2, 160, 134, 1, 0>>,
      <<>> }

TransferDatas == {<<3>> \o PackU64LE(a) : a \in Amounts} \cup {<<3, 1, 2>>}

TransferAccounts == {<<1, 2, 0>>, <<1, 3, 2, 0>>}

Transactions ==
    { Transaction(Keys,
          [i \in 1..n |->
              IF i = 1 THEN Instruction(KeyIndex(Keys, p0), <<>>, d0)
              ELSE IF i = 2 THEN Instruction(KeyIndex(Keys, p1), <<>>, <<2, 160, 134, 1, 0>>)
              ELSE IF i = 3 THEN Instruction(KeyIndex(Keys, p2), a2, d2)
              ELSE Instruction(KeyIndex(Keys, SYSTEM_PROGRAM), <<0, 1>>, <<2, 0, 0, 0>>)],
          <<"sig:Client">>) :
        n \in 0..MaxInstructions,
        p0 \in {COMPUTE_BUDGET_PROGRAM_ID, SYSTEM_PROGRAM},
        d0 \in PriceDatas,
        p1 \in {COMPUTE_BUDGET_PROGRAM_ID, SYSTEM_PROGRAM},
        p2 \in {TOKEN_PROGRAM, TOKEN_2022_PROGRAM, SYSTEM_PROGRAM},
        a2 \in TransferAccounts,
        d2 \in TransferDatas }

\* transactions as Transaction.from_bytes may hand them over: up to two
\* instructions, token or not, whose indexes may lie outside the account table
PayerInstructions ==
    { Instruction(p, a, <<3>> \o PackU64LE(Required)) :
        p \in {KeyIndex(Keys, TOKEN_PROGRAM), KeyIndex(Keys, TOKEN_2022_PROGRAM),
               KeyIndex(Keys, SYSTEM_PROGRAM), Len(Keys)},
        a \in {<<1, 2, 0>>, <<1, 3, 2, 0>>, <<1, 3, 2, Len(Keys) + 1>>} }

PayerTransactions ==
    { Transaction(Keys, ixs, <<"sig:Client">>) :
        ixs \in {<<>>} \cup {<<a>> : a \in PayerInstructions}
                 \cup {<<a, b>> : a \in PayerInstructions, b \in PayerInstructions} }

\* the two compute-budget directives in the other order: the limit first,
\* then a price at, or one above, the ceiling
PriceSecondTransactions ==
    { Transaction(Keys,
          << Instruction(KeyIndex(Keys, COMPUTE_BUDGET_PROGRAM_ID), <<>>,
                         <<2, 160, 134, 1, 0>>),
             Instruction(KeyIndex(Keys, COMPUTE_BUDGET_PROGRAM_ID), <<>>,
                         <<3>> \o PackU64LE(price)),
             Instruction(KeyIndex(Keys, TOKEN_PROGRAM), <<1, 3, 2, 0>>,
                         <<3>> \o PackU64LE(Required)) >>,
          <<"sig:Client">>) :
        price \in {MaxMicroLamports, MaxMicroLamports + 1} }

\* a token-program instruction with 4 accounts ahead of, or behind, the
\* transfer at index 2, naming another account at position 3
DecoyTransactions ==
    { Transaction(Keys,
          [i \in 1..n |->
              IF i = 1
              THEN Instruction(KeyIndex(Keys, COMPUTE_BUDGET_PROGRAM_ID), <<>>,
                               <<3>> \o PackU64LE(BuilderPrice))
              ELSE IF i = 2
              THEN Instruction(KeyIndex(Keys, p1), <<1, 3, 2, 2>>,
                               <<2, 160, 134, 1, 0>>)
              ELSE IF i = 3
              THEN Instruction(KeyIndex(Keys, TOKEN_PROGRAM), a2,
                               <<3>> \o PackU64LE(Required))
              ELSE Instruction(KeyIndex(Keys, TOKEN_2022_PROGRAM), <<1, 3, 2, 2>>,
                               <<3>> \o PackU64LE(Required))],
          <<"sig:Client">>) :
        n \in 3..MaxInstructions,
        p1 \in {COMPUTE_BUDGET_PROGRAM_ID, TOKEN_PROGRAM},
        a2 \in TransferAccounts }

Undecodable == {[b64 |-> FALSE, wire |-> <<>>], [b64 |-> TRUE, wire |-> <<>>]}

Schemes == {"exact", "upto"}
Networks == {"solana", "solana-devnet", "base"}
MaxAmountStrings == {DecimalString(Required), <<"a", "b", "c">>}

\* recipient, mint and fee payer named by the requirements; the builder's
\* RecipientATA is the associated token account of Recipient for Mint
PayTos == {"Recipient", "Attacker"}
Assets == {"Mint", "OtherMint"}
Extras == {[fee_payer |-> "Facilitator"], [fee_payer |-> "OtherFeePayer"]}

Requirements ==
    [scheme : Schemes, network : Networks, max_amount_required : MaxAmountStrings,
     pay_to : {"Recipient"}, asset : {"Mint"}, extra : {[fee_payer |-> "Facilitator"]}]

\* requirements the payload builder is run on: amounts struct.pack("<Q")
\* takes, including 0 and values that fill one, two and four bytes
BuilderAmounts == {0, 1, 255, 256, Required, 2147483647}

BuilderRequirements ==
    [scheme : {"exact"}, network : {"solana", "solana-devnet"},
     max_amount_required : {DecimalString(a) : a \in BuilderAmounts},
     pay_to : {"Recipient"}, asset : {"Mint"}, extra : {[fee_payer |-> "Facilitator"]}]

Payload(scheme, network, encoded) ==
    [x402_version |-> 1, scheme |-> scheme, network |-> network,
     payload |-> [transaction |-> encoded]]

\* versions a payload object may carry when it is handed to the engines
Versions == {0, 1, 2}

\* a well-formed transfer of exactly the required amount, and one instruction short
SampleTransactions ==
    { t \in Transactions :
        /\ Len(t.instructions) \in {2, 3}
        /\ ProgramId(t, t.instructions[1]) = COMPUTE_BUDGET_PROGRAM_ID
        /\ t.instructions[1].data = <<3>> \o PackU64LE(BuilderPrice)
        /\ ProgramId(t, t.instructions[2]) = COMPUTE_BUDGET_PROGRAM_ID
        /\ Len(t.instructions) = 3 =>
              /\ ProgramId(t, t.instructions[3]) = TOKEN_PROGRAM
              /\ t.instructions[3].data = <<3>> \o PackU64LE(Required)
              /\ Len(t.instructions[3].accounts) = 4 }

(***************************************************************************)
(* Constructors of the pydantic classes (types/payment.py).  A field is    *)
(* checked against its annotation, then by its field_validator; every      *)
(* failure is collected and one ValidationError carries them all.          *)
(***************************************************************************)
ValidationError(errors) ==
    [type |-> "ValidationError", msg |-> "validation errors", errors |-> errors]

Constructed(errors, value) ==
    IF errors = {} THEN [exc |-> <<>>, value |-> <<value>>]
    ELSE [exc |-> <<ValidationError(errors)>>, value |-> <<>>]

LiteralError(v, allowed, text) == IF v \in allowed THEN {} ELSE {text}

\* variant: any version from 1 upwards passes
validate_version_AtLeastOne(v) ==
    IF v < 1 THEN {"Only x402 version 1 is supported"} ELSE {}

validate_version(v) ==
    IF v # 1 THEN {"Only x402 version 1 is supported"} ELSE {}

PaymentPayload(a) ==
    Constructed(
        validate_version(a.x402_version)
        \cup LiteralError(a.scheme, {"exact"}, "Input should be 'exact'")
        \cup LiteralError(a.network, {"solana", "solana-devnet"},
                          "Input should be 'solana' or 'solana-devnet'"),
        a)

\* variant: the sign of the amount is not looked at
validate_amount_NoSignCheck(v) ==
    IF ~IntParses(v)
    THEN {"max_amount_required must be an integer encoded as a string"}
    ELSE {}

validate_amount(v) ==
    IF ~IntParses(v)
    THEN {"max_amount_required must be an integer encoded as a string"}
    ELSE IF IntOf(v) < 0 THEN {"max_amount_required must be non-negative"}
    ELSE {}

PaymentRequirements(a) ==
    Constructed(
        LiteralError(a.scheme, {"exact"}, "Input should be 'exact'")
        \cup LiteralError(a.network, {"solana", "solana-devnet"},
                          "Input should be 'solana' or 'solana-devnet'")
        \cup validate_amount(a.max_amount_required),
        a)

\* keyword arguments the constructors are called with
PaymentPayloadArguments ==
    [x402_version : Versions, scheme : Schemes, network : Networks,
     payload : {[transaction |-> [b64 |-> FALSE, wire |-> <<>>]]}]

AmountArguments ==
    { DecimalString(Required), <<"0">>, <<"-", "5">>, <<"-", "0">>, <<"+", "7">>,
      <<"a", "b", "c">>, <<"1", ".", "5">>, <<"-">>, <<>> }

PaymentRequirementsArguments ==
    [scheme : Schemes, network : Networks, max_amount_required : AmountArguments,
     pay_to : {"Recipient"}, asset : {"Mint"}, extra : {[fee_payer |-> "Facilitator"]}]

(***************************************************************************)
(* Wallet (shared/svm/wallet.py).  bytes(keypair) is the 64-byte           *)
(* concatenation of private and public key.  What Keypair.from_bytes makes *)
(* of a 32-byte string is the library's: a Keypair or an error of its own. *)
(***************************************************************************)
PrivateKeyLen == 32
SerializedKeypairLen == 64

Bytes(n, b) == [i \in 1..n |-> b]

\* bytes(keypair) of the keypair generated from the private key bytes seed
SerializedKeypair(seed) ==
    seed \o [i \in 1..(SerializedKeypairLen - PrivateKeyLen) |-> 255 - seed[i]]

Keypair(b) == [exc |-> <<>>, value |-> <<[keypair |-> b]>>]

KeypairFromBytes(b) ==
    { Keypair(b),
      [exc |-> <<ValueError("Keypair.from_bytes failed")>>, value |-> <<>>] }

\* variant: only inputs longer than 32 bytes are rejected
create_signer_from_bytes_TooLongOnly(private_key_bytes) ==
    IF Len(private_key_bytes) > PrivateKeyLen
    THEN {[exc |-> <<ValueError("Private key must be 32 bytes")>>, value |-> <<>>]}
    ELSE KeypairFromBytes(private_key_bytes)

\* the outcomes of create_signer_from_bytes
create_signer_from_bytes(private_key_bytes) ==
    IF Len(private_key_bytes) # PrivateKeyLen
    THEN {[exc |-> <<ValueError("Private key must be 32 bytes")>>, value |-> <<>>]}
    ELSE KeypairFromBytes(private_key_bytes)

GeneratedKeypairs == {SerializedKeypair(Bytes(PrivateKeyLen, b)) : b \in {1, 2}}

PrivateKeyArguments ==
    {Bytes(n, 7) : n \in {0, 7, PrivateKeyLen - 1, PrivateKeyLen, PrivateKeyLen + 1}}
    \cup GeneratedKeypairs

(***************************************************************************)
(* Responses                                                               *)
(***************************************************************************)
VerifyResponse(is_valid, invalid_reason, payer) ==
    [is_valid |-> is_valid, invalid_reason |-> invalid_reason, payer |-> payer]

SettleResponse(success, error_reason, network, transaction, payer) ==
    [success |-> success, error_reason |-> error_reason, network |-> network,
     transaction |-> transaction, payer |-> payer]

\* SettleResponse.network is a Literal field: constructing the response with
\* another value raises pydantic's ValidationError
SettleResponseValidates(network) == network \in {"solana", "solana-devnet"}

\* where control goes when verify_payment returns or raises
AfterVerify == IF call = "settle_payment" THEN "settle_after_verify" ELSE "done"

(***************************************************************************)
(* verify_payment (facilitator.py 38-137)                                  *)
(***************************************************************************)
VerifySchemesAndNetworks ==
    /\ pc = "verify_schemes_and_networks"
    /\ events' = events \cup {"verify_schemes_and_networks"}
    /\ LET e == verify_schemes_and_networks(payload, payment_requirements)
       IN IF e = <<>>
          THEN pc' = "decode_transaction_from_payload" /\ exc' = exc
          ELSE pc' = "except" /\ exc' = e
    /\ UNCHANGED <<arg, ret, suspended, call, gateway, payload, payment_requirements, raised,
                   verify_response, settle_response, send_result, signature,
                   attempt, sendCalls, pollCalls,
                   signerCalls, submitted>>

VerifyDecode ==
    /\ pc = "decode_transaction_from_payload"
    /\ events' = events \cup {"decode_transaction_from_payload"}
    /\ LET d == decode_transaction_from_payload(payload.payload)
       IN IF d.exc = <<>>
          THEN pc' = "transaction_introspection" /\ exc' = exc
          ELSE pc' = "except" /\ exc' = d.exc
    /\ UNCHANGED <<arg, ret, suspended, call, gateway, payload, payment_requirements, raised,
                   verify_response, settle_response, send_result, signature,
                   attempt, sendCalls, pollCalls,
                   signerCalls, submitted>>

\* variant: the transfer's destination is compared with the recipient the
\* requirements name
VerifyIntrospection_ComparesPayTo ==
    /\ pc = "transaction_introspection"
    /\ events' = events \cup {"transaction_introspection"}
    /\ LET e == IF payment_requirements.pay_to # "Recipient"
                THEN <<ValueError("invalid_exact_svm_payload_transaction_transfer_to_incorrect_ata")>>
                ELSE transaction_introspection(payload.payload, payment_requirements)
       IN IF e = <<>>
          THEN pc' = "simulate_transaction" /\ exc' = exc
          ELSE pc' = "except" /\ exc' = e
    /\ UNCHANGED <<arg, ret, suspended, call, gateway, payload, payment_requirements, raised,
                   verify_response, settle_response, send_result, signature,
                   attempt, sendCalls, pollCalls,
                   signerCalls, submitted>>

VerifyIntrospection ==
    /\ pc = "transaction_introspection"
    /\ events' = events \cup {"transaction_introspection"}
    /\ LET e == transaction_introspection(payload.payload, payment_requirements)
       IN IF e = <<>>
          THEN pc' = "simulate_transaction" /\ exc' = exc
          ELSE pc' = "except" /\ exc' = e
    /\ UNCHANGED <<arg, ret, suspended, call, gateway, payload, payment_requirements, raised,
                   verify_response, settle_response, send_result, signature,
                   attempt, sendCalls, pollCalls,
                   signerCalls, submitted>>

\* simulate_transaction (rpc.py 86-128) serializes the transaction and then
\* evaluates base64.b64encode: rpc.py binds no name base64 at module level
\* (only send_and_confirm_transaction imports it, locally), so the call ends
\* in a NameError before any request is posted to the gateway.
simulate_transaction(transaction) ==
    <<Exception("NameError", "name 'base64' is not defined")>>

VerifySimulate ==
    /\ pc = "simulate_transaction"
    /\ events' = events \cup {"simulate_transaction"}
    /\ exc' = simulate_transaction(decode_transaction_from_payload(payload.payload).value[1])
    /\ pc' = "except"
    /\ UNCHANGED <<arg, ret, suspended, call, gateway, payload, payment_requirements, raised,
                   verify_response, settle_response, send_result, signature,
                   attempt, sendCalls, pollCalls,
                   signerCalls, submitted>>

\* the two except clauses of verify_payment: what is returned (response) or
\* re-raised (raised) for the exception e
\* variant: the text of an unexpected exception returned as the reason
VerifyHandler_RawText(e, p) ==
    IF IsValueError(e) /\ e.msg \notin ERROR_REASONS
    THEN [response |-> <<>>, raised |-> <<e>>]
    ELSE [response |-> <<VerifyResponse(FALSE, e.msg, BestEffortPayer(p))>>,
          raised |-> <<>>]

VerifyHandler(e, p) ==
    IF IsValueError(e)
    THEN IF e.msg \in ERROR_REASONS
         THEN [response |-> <<VerifyResponse(FALSE, e.msg, BestEffortPayer(p))>>,
               raised |-> <<>>]
         ELSE [response |-> <<>>, raised |-> <<e>>]
    ELSE [response |-> <<VerifyResponse(FALSE, "unexpected_verify_error",
                                        BestEffortPayer(p))>>,
          raised |-> <<>>]

VerifyExcept ==
    /\ pc = "except"
    /\ LET h == VerifyHandler(exc[1], payload)
       IN /\ verify_response' = h.response
          /\ raised' = h.raised
    /\ pc' = AfterVerify
    /\ UNCHANGED <<arg, ret, suspended, call, gateway, payload, payment_requirements, exc,
                   settle_response, send_result, signature, attempt, events,
                   sendCalls, pollCalls,
                   signerCalls, submitted>>

(***************************************************************************)
(* settle_payment (facilitator.py 140-231).  An exception of verify_payment*)
(* propagates: settle_payment has no try block.  The statements after the  *)
(* "if not verify_response.is_valid" return run only for a valid           *)
(* verification.  The return itself constructs a SettleResponse, whose     *)
(* network field is validated.                                             *)
(***************************************************************************)
\* variant: the text of the exception verify_payment caught as errorReason
SettleInvalid_RawText(vr, p) ==
    SettleResponse(FALSE, exc[1].msg, p.network, "", vr.payer)

SettleInvalid(vr, p) ==
    SettleResponse(FALSE, vr.invalid_reason, p.network, "", vr.payer)

\* lines 186-197: the facilitator's signature over the message bytes goes
\* after the signatures the decoded transaction carries; Transaction.new_signed
\* builds a new transaction from the same message
CoSign(decoded_transaction) ==
    Transaction(decoded_transaction.account_keys,
                decoded_transaction.instructions,
                decoded_transaction.signatures \o <<"sig:Facilitator">>)

\* variant: the co-signature made before the verification's result is read
SettleAfterVerify_SignsFirst ==
    /\ pc = "settle_after_verify"
    /\ events' = events \cup {"sign_message"}
    /\ signerCalls' = signerCalls + 1
    /\ IF raised # <<>>
       THEN pc' = "done" /\ UNCHANGED <<settle_response, raised, submitted>>
       ELSE IF ~verify_response[1].is_valid
       THEN /\ pc' = "done"
            /\ IF SettleResponseValidates(payload.network)
               THEN /\ settle_response' = <<SettleInvalid(verify_response[1], payload)>>
                    /\ raised' = raised
               ELSE /\ settle_response' = settle_response
                    /\ raised' = <<Exception("ValidationError",
                                     "1 validation error for SettleResponse")>>
            /\ submitted' = submitted
       ELSE /\ submitted' = <<CoSign(decode_transaction_from_payload(payload.payload).value[1])>>
            /\ LET r == get_token_payer_from_transaction(
                            decode_transaction_from_payload(payload.payload).value[1])
               IN /\ raised' = r.exc
                  /\ pc' = IF r.exc = <<>> THEN "sendTransaction" ELSE "done"
            /\ settle_response' = settle_response
    /\ UNCHANGED <<arg, ret, suspended, call, gateway, payload, payment_requirements, exc,
                   verify_response, send_result, signature, attempt,
                   sendCalls, pollCalls>>

SettleAfterVerify ==
    /\ pc = "settle_after_verify"
    /\ IF raised # <<>>
       THEN pc' = "done" /\ UNCHANGED <<settle_response, raised, events,
                                         signerCalls, submitted>>
       ELSE IF ~verify_response[1].is_valid
       THEN /\ pc' = "done"
            /\ IF SettleResponseValidates(payload.network)
               THEN /\ settle_response' = <<SettleInvalid(verify_response[1], payload)>>
                    /\ raised' = raised
               ELSE /\ settle_response' = settle_response
                    /\ raised' = <<Exception("ValidationError",
                                     "1 validation error for SettleResponse")>>
            /\ UNCHANGED <<events, signerCalls, submitted>>
       ELSE /\ events' = events \cup {"decode_transaction_from_payload", "sign_message"}
            /\ signerCalls' = signerCalls + 1
            /\ submitted' = <<CoSign(decode_transaction_from_payload(payload.payload).value[1])>>
            /\ LET r == get_token_payer_from_transaction(
                            decode_transaction_from_payload(payload.payload).value[1])
               IN /\ raised' = r.exc
                  /\ pc' = IF r.exc = <<>> THEN "sendTransaction" ELSE "done"
            /\ settle_response' = settle_response
    /\ UNCHANGED <<arg, ret, suspended, call, gateway, payload, payment_requirements, exc,
                   verify_response, send_result, signature, attempt,
                   sendCalls, pollCalls>>

(***************************************************************************)
(* send_and_confirm_transaction (rpc.py 131-203)                           *)
(***************************************************************************)
SendResult(success, sig, error) ==
    [success |-> success, signature |-> sig, error |-> error]

\* replies of the gateway to sendTransaction: a signature, an empty
\* signature, a JSON-RPC error object, a reply with neither "error" nor
\* "result", or a transport failure (post, raise_for_status or json raises)
SendReplies == {"signature", "empty_signature", "rpc_error", "no_result",
                "transport_failure"}

SendOutcome(reply) ==
    CASE reply = "signature" -> [sig |-> "5ig", result |-> <<>>]
      [] reply = "empty_signature" -> [sig |-> "", result |-> <<>>]
      [] reply = "rpc_error" ->
            [sig |-> None,
             result |-> <<SendResult(FALSE, None, <<ValueError("RPC error: {...}")>>)>>]
      [] reply = "no_result" ->
            [sig |-> None,
             result |-> <<SendResult(FALSE, None, <<Exception("KeyError", "'result'")>>)>>]
      [] reply = "transport_failure" ->
            [sig |-> None,
             result |-> <<SendResult(FALSE, None, <<Exception("HTTPError", "transport failure")>>)>>]

\* facilitator.py 215-231: what settle_payment returns for the tuple that
\* send_and_confirm_transaction returned
SettleAfterSend(result, p) ==
    LET payer == get_token_payer_from_transaction(
                     decode_transaction_from_payload(p.payload).value[1]).value
    IN IF result.success /\ result.signature \notin {None, ""}
       THEN SettleResponse(TRUE, None, p.network, result.signature, payer)
       ELSE SettleResponse(FALSE,
                IF result.error # <<>> THEN result.error[1].msg
                ELSE "transaction_failed",
                p.network,
                IF result.signature \in {None, ""} THEN "" ELSE result.signature,
                payer)

\* the response of settle_payment once the submission has returned result
SettleReturns(result) ==
    IF call = "settle_payment" /\ result # <<>>
    THEN <<SettleAfterSend(result[1], payload)>>
    ELSE settle_response

SendTransaction ==
    /\ pc = "sendTransaction"
    /\ events' = events \cup {"sendTransaction"}
    /\ sendCalls' = sendCalls + 1
    /\ LET o == SendOutcome(gateway.send)
       IN /\ signature' = o.sig
          /\ send_result' = o.result
          /\ pc' = IF o.result = <<>> THEN "getSignatureStatuses" ELSE "done"
    /\ settle_response' = SettleReturns(send_result')
    /\ attempt' = 0
    /\ UNCHANGED <<arg, ret, suspended, call, gateway, payload, payment_requirements, exc, raised,
                   verify_response, pollCalls,
                   signerCalls, submitted>>

\* replies to getSignatureStatuses: value [null], value [status] (with or
\* without an err field), a reply without "result", or a failure of the
\* request or of the indexing of an empty value list
PollReplies == {"null", "status", "status_err", "no_result", "failure"}

\* the reply to the poll numbered n (1-based) of one confirmation wait
PollReply(gw, n) == IF n = gw.poll_at THEN gw.poll ELSE gw.pending

PollOutcome(reply, sig) ==
    CASE reply \in {"status", "status_err"} -> <<SendResult(TRUE, sig, <<>>)>>
      [] reply = "failure" ->
            <<SendResult(FALSE, None, <<Exception("Exception", "poll failure")>>)>>
      [] OTHER -> <<>>

PollStatus ==
    /\ pc = "getSignatureStatuses"
    /\ attempt < max_attempts
    /\ events' = events \cup {"getSignatureStatuses"}
    /\ pollCalls' = pollCalls + 1
    /\ LET r == PollOutcome(PollReply(gateway, attempt + 1), signature)
       IN /\ send_result' = r
          /\ IF r = <<>>
             THEN pc' = pc /\ attempt' = attempt + 1
             ELSE pc' = "done" /\ attempt' = attempt
    /\ settle_response' = SettleReturns(send_result')
    /\ UNCHANGED <<arg, ret, suspended, call, gateway, payload, payment_requirements, exc, raised,
                   verify_response, signature, sendCalls,
                   signerCalls, submitted>>

PollExhausted ==
    /\ pc = "getSignatureStatuses"
    /\ attempt = max_attempts
    /\ send_result' = <<SendResult(TRUE, signature, <<>>)>>
    /\ settle_response' = SettleReturns(send_result')
    /\ pc' = "done"
    /\ UNCHANGED <<arg, ret, suspended, call, gateway, payload, payment_requirements, exc, raised,
                   verify_response, signature, attempt, events,
                   sendCalls, pollCalls,
                   signerCalls, submitted>>

(***************************************************************************)
(* Initial states: the entry point, its arguments and the gateway's        *)
(* behaviour.  The arguments are objects of the declared classes whose     *)
(* string fields hold any string: the classes validate at construction     *)
(* only, and the guard of verify_payment tests for the very values that    *)
(* construction rejects.  Every scheme/network combination is tried on a few *)
(* transaction strings, every transaction string on the matching supported *)
(* headers, and every gateway behaviour on the builder's own payloads and  *)
(* on well-formed transfers.                                               *)
(***************************************************************************)
SimulateReplies == {"ok", "err", "value_err", "rpc_error", "transport_failure"}

PollAts == {0, 1, 2, max_attempts}

Gateways ==
    [simulate : SimulateReplies, send : SendReplies,
     poll : {"status", "status_err", "failure"}, poll_at : PollAts,
     pending : {"null", "no_result"}]

\* requirements that agree with req on scheme, network and amount
Redirected(req) ==
    { [req EXCEPT !.pay_to = p, !.asset = a, !.extra = e] :
        p \in PayTos, a \in Assets, e \in Extras }

DefaultGateway ==
    [simulate |-> "ok", send |-> "signature", poll |-> "status", poll_at |-> 1,
     pending |-> "null"]

DefaultRequirements ==
    [scheme |-> "exact", network |-> "solana",
     max_amount_required |-> DecimalString(Required),
     pay_to |-> "Recipient", asset |-> "Mint", extra |-> [fee_payer |-> "Facilitator"]]

Inputs ==
    { <<Payload(s, n, e), r, DefaultGateway>> :
        s \in Schemes, n \in Networks, r \in Requirements,
        e \in {encode_transaction_to_base64(t) : t \in SampleTransactions}
              \cup Undecodable }
    \cup
    { <<Payload("exact", r.network, encode_transaction_to_base64(t)), r,
        DefaultGateway>> :
        t \in Transactions,
        r \in {q \in Requirements :
                  q.scheme = "exact" /\ q.network \in {"solana", "solana-devnet"}} }
    \cup
    { <<create_payment_payload(r), r, g>> :
        r \in {q \in Requirements : IntParses(q.max_amount_required)},
        g \in Gateways }
    \cup
    { <<Payload("exact", "solana", encode_transaction_to_base64(t)),
        DefaultRequirements, g>> :
        t \in {u \in SampleTransactions : Len(u.instructions) = 3},
        g \in Gateways }
    \cup
    { <<create_payment_payload(r), r, DefaultGateway>> : r \in BuilderRequirements }
    \cup
    { <<Payload("exact", "solana", encode_transaction_to_base64(t)),
        DefaultRequirements, DefaultGateway>> :
        t \in PayerTransactions \cup PriceSecondTransactions \cup DecoyTransactions }
    \cup
    { <<p, r, DefaultGateway>> :
        r \in Redirected(DefaultRequirements),
        p \in {create_payment_payload(DefaultRequirements),
               Payload("exact", "solana", [b64 |-> FALSE, wire |-> <<>>])} }
    \cup
    { <<[p EXCEPT !.x402_version = v], DefaultRequirements, DefaultGateway>> :
        v \in Versions,
        p \in {create_payment_payload(DefaultRequirements),
               Payload("upto", "solana", [b64 |-> FALSE, wire |-> <<>>])} }

EntryPoints == {"verify_payment", "settle_payment", "send_and_confirm_transaction"}

\* functions and constructors called directly, each with its arguments
Functions ==
    [get_token_payer_from_transaction |-> PayerTransactions,
     PaymentPayload |-> PaymentPayloadArguments,
     PaymentRequirements |-> PaymentRequirementsArguments,
     create_signer_from_bytes |-> PrivateKeyArguments]

\* a direct call returns or raises in one step
Return(f, result) ==
    /\ call = f
    /\ pc = "call"
    /\ ret' = <<result>>
    /\ pc' = "done"
    /\ UNCHANGED <<suspended, arg, call, gateway, payload, payment_requirements,
                   exc, raised, verify_response, settle_response, send_result,
                   signature, attempt, events, sendCalls, pollCalls,
                   signerCalls, submitted>>

GetTokenPayerFromTransaction ==
    Return("get_token_payer_from_transaction", get_token_payer_from_transaction(arg))

ConstructPaymentPayload == Return("PaymentPayload", PaymentPayload(arg))

ConstructPaymentRequirements == Return("PaymentRequirements", PaymentRequirements(arg))

CreateSignerFromBytes ==
    /\ call = "create_signer_from_bytes"
    /\ \E outcome \in create_signer_from_bytes(arg) :
          Return("create_signer_from_bytes", outcome)

InitFunction ==
    /\ call \in DOMAIN Functions
    /\ arg \in Functions[call]
    /\ payload = create_payment_payload(DefaultRequirements)
    /\ payment_requirements = DefaultRequirements
    /\ gateway = DefaultGateway
    /\ pc = "call"
    /\ submitted = <<>>

InitEngine ==
    /\ call \in EntryPoints
    /\ arg = None
    /\ \E inp \in Inputs :
          /\ call = "send_and_confirm_transaction" =>
                /\ inp[1] = create_payment_payload(DefaultRequirements)
                /\ inp[2] = DefaultRequirements
                /\ inp[3].simulate = "ok"
          /\ payload = inp[1]
          /\ payment_requirements = inp[2]
          /\ gateway = inp[3]
    /\ pc = IF call = "send_and_confirm_transaction"
            THEN "sendTransaction" ELSE "verify_schemes_and_networks"
    /\ submitted = IF call = "send_and_confirm_transaction"
                   THEN decode_transaction_from_payload(payload.payload).value
                   ELSE <<>>

Init ==
    /\ InitEngine \/ InitFunction
    /\ ret = <<>>
    /\ suspended = <<>>
    /\ exc = <<>>
    /\ raised = <<>>
    /\ verify_response = <<>>
    /\ settle_response = <<>>
    /\ send_result = <<>>
    /\ signature = None
    /\ attempt = 0
    /\ events = {}
    /\ sendCalls = 0
    /\ pollCalls = 0
    /\ signerCalls = 0

Next ==
    \/ VerifySchemesAndNetworks
    \/ VerifyDecode
    \/ VerifyIntrospection
    \/ VerifySimulate
    \/ VerifyExcept
    \/ SettleAfterVerify
    \/ SendTransaction
    \/ PollStatus
    \/ PollExhausted
    \/ GetTokenPayerFromTransaction
    \/ ConstructPaymentPayload
    \/ ConstructPaymentRequirements
    \/ CreateSignerFromBytes

Spec == Init /\ [][Next]_vars

(***************************************************************************)
(* Two invocations in flight.  facilitator.py and rpc.py keep no module-   *)
(* level variable that is assigned after import, and each request opens    *)
(* its own httpx.AsyncClient: everything an invocation reads or writes is  *)
(* an argument or a local.  The running invocation owns the variables      *)
(* above; the other waits in suspended and takes over at a Switch.  Under  *)
(* asyncio a switch happens at an awaited request or sleep, under threads  *)
(* anywhere: Switch is enabled at every position.                          *)
(***************************************************************************)
Invocation ==
    [call |-> call, gateway |-> gateway, payload |-> payload,
     payment_requirements |-> payment_requirements, pc |-> pc, exc |-> exc,
     raised |-> raised, verify_response |-> verify_response,
     settle_response |-> settle_response, send_result |-> send_result,
     signature |-> signature, attempt |-> attempt, events |-> events,
     sendCalls |-> sendCalls, pollCalls |-> pollCalls,
     signerCalls |-> signerCalls, submitted |-> submitted]

\* the invocation of entry point c on the arguments and gateway inp, before
\* its first statement
Start(c, inp) ==
    [call |-> c, gateway |-> inp[3], payload |-> inp[1],
     payment_requirements |-> inp[2],
     pc |-> IF c = "send_and_confirm_transaction"
            THEN "sendTransaction" ELSE "verify_schemes_and_networks",
     exc |-> <<>>, raised |-> <<>>, verify_response |-> <<>>,
     settle_response |-> <<>>, send_result |-> <<>>, signature |-> None,
     attempt |-> 0, events |-> {}, sendCalls |-> 0, pollCalls |-> 0,
     signerCalls |-> 0,
     submitted |-> IF c = "send_and_confirm_transaction"
                   THEN decode_transaction_from_payload(inp[1].payload).value
                   ELSE <<>>]

\* variant: the exception caught by verify_payment kept in one place for
\* all invocations
Switch_SharedExc ==
    /\ suspended # <<>>
    /\ LET other == suspended[1]
       IN /\ call' = other.call
          /\ gateway' = other.gateway
          /\ payload' = other.payload
          /\ payment_requirements' = other.payment_requirements
          /\ pc' = other.pc
          /\ exc' = exc
          /\ raised' = other.raised
          /\ verify_response' = other.verify_response
          /\ settle_response' = other.settle_response
          /\ send_result' = other.send_result
          /\ signature' = other.signature
          /\ attempt' = other.attempt
          /\ events' = other.events
          /\ sendCalls' = other.sendCalls
          /\ pollCalls' = other.pollCalls
          /\ signerCalls' = other.signerCalls
          /\ submitted' = other.submitted
    /\ suspended' = <<Invocation>>
    /\ UNCHANGED <<arg, ret>>

Switch ==
    /\ suspended # <<>>
    /\ LET other == suspended[1]
       IN /\ call' = other.call
          /\ gateway' = other.gateway
          /\ payload' = other.payload
          /\ payment_requirements' = other.payment_requirements
          /\ pc' = other.pc
          /\ exc' = other.exc
          /\ raised' = other.raised
          /\ verify_response' = other.verify_response
          /\ settle_response' = other.settle_response
          /\ send_result' = other.send_result
          /\ signature' = other.signature
          /\ attempt' = other.attempt
          /\ events' = other.events
          /\ sendCalls' = other.sendCalls
          /\ pollCalls' = other.pollCalls
          /\ signerCalls' = other.signerCalls
          /\ submitted' = other.submitted
    /\ suspended' = <<Invocation>>
    /\ UNCHANGED <<arg, ret>>

\* arguments of the invocations run side by side: the builder's payload, one
\* of another scheme, one for a network outside the supported two, one that
\* does not decode; and gateways that confirm, never confirm, refuse the
\* submission or fail at the second poll
ConcurrentArguments ==
    { <<create_payment_payload(DefaultRequirements), DefaultRequirements,
        DefaultGateway>>,
      <<Payload("upto", "solana",
                create_payment_payload(DefaultRequirements).payload.transaction),
        DefaultRequirements, DefaultGateway>>,
      <<Payload("exact", "base",
                create_payment_payload(DefaultRequirements).payload.transaction),
        [DefaultRequirements EXCEPT !.network = "base"], DefaultGateway>>,
      <<Payload("exact", "solana", [b64 |-> FALSE, wire |-> <<>>]),
        DefaultRequirements, DefaultGateway>> }
    \cup
    { <<create_payment_payload(DefaultRequirements), r, DefaultGateway>> :
        r \in { [DefaultRequirements EXCEPT !.pay_to = "Attacker"],
                [DefaultRequirements EXCEPT !.asset = "OtherMint",
                     !.extra = [fee_payer |-> "OtherFeePayer"]] } }

ConcurrentGateways ==
    { DefaultGateway,
      [DefaultGateway EXCEPT !.poll_at = 0],
      [DefaultGateway EXCEPT !.send = "rpc_error"],
      [DefaultGateway EXCEPT !.poll = "failure", !.poll_at = 2] }

ConcurrentInvocations ==
    { Start(c, inp) : c \in {"verify_payment", "settle_payment"},
                      inp \in ConcurrentArguments }
    \cup
    { Start("send_and_confirm_transaction",
            <<create_payment_payload(DefaultRequirements), DefaultRequirements, g>>) :
        g \in ConcurrentGateways }

InitConcurrent ==
    /\ \E first \in ConcurrentInvocations :
          /\ call = first.call
          /\ gateway = first.gateway
          /\ payload = first.payload
          /\ payment_requirements = first.payment_requirements
          /\ pc = first.pc
          /\ exc = first.exc
          /\ raised = first.raised
          /\ verify_response = first.verify_response
          /\ settle_response = first.settle_response
          /\ send_result = first.send_result
          /\ signature = first.signature
          /\ attempt = first.attempt
          /\ events = first.events
          /\ sendCalls = first.sendCalls
          /\ pollCalls = first.pollCalls
          /\ signerCalls = first.signerCalls
          /\ submitted = first.submitted
    /\ \E second \in ConcurrentInvocations : suspended = <<second>>
    /\ arg = None
    /\ ret = <<>>

NextConcurrent ==
    \/ VerifySchemesAndNetworks
    \/ VerifyDecode
    \/ VerifyIntrospection
    \/ VerifySimulate
    \/ VerifyExcept
    \/ SettleAfterVerify
    \/ SendTransaction
    \/ PollStatus
    \/ PollExhausted
    \/ Switch

SpecConcurrent == InitConcurrent /\ [][NextConcurrent]_vars

(***************************************************************************)
(* Vocabulary of the properties                                            *)
(***************************************************************************)
VerifyEnded == call = "verify_payment" /\ pc = "done"
SettleEnded == call = "settle_payment" /\ pc = "done"
SendEnded == call = "send_and_confirm_transaction" /\ pc = "done"

\* verify_payment has returned or raised (directly or inside settle_payment)
VerifyOver == pc \in {"done", "settle_after_verify", "sendTransaction",
                      "getSignatureStatuses"}
              /\ call \in {"verify_payment", "settle_payment"}

SchemesAreExact == payload.scheme = "exact" /\ payment_requirements.scheme = "exact"

GuardAdmits ==
    /\ SchemesAreExact
    /\ payload.network = payment_requirements.network
    /\ payment_requirements.network \in {"solana", "solana-devnet"}

PayloadDecodes ==
    payload.payload.transaction.b64 /\ Len(payload.payload.transaction.wire) = 1

PayloadTx == payload.payload.transaction.wire[1]

\* the transaction has the shape the validator checks, up to the amount
TransactionIsWellFormed ==
    /\ PayloadDecodes
    /\ Len(PayloadTx.instructions) >= 3
    /\ verify_compute_budget_instructions(
           PayloadTx, SubSeq(PayloadTx.instructions, 1, 2)) = <<>>
    /\ IsTokenProgram(ProgramId(PayloadTx, PayloadTx.instructions[3]))
    /\ Len(PayloadTx.instructions[3].data) >= 9
    /\ IntParses(payment_requirements.max_amount_required)

TransferIsWellFormed == GuardAdmits /\ TransactionIsWellFormed

TransferAmount == UnpackU64LE(SubSeq(PayloadTx.instructions[3].data, 2, 9))
RequiredAmount == IntOf(payment_requirements.max_amount_required)

\* the gateway's simulation of the transaction reports no error
SimulationClean == gateway.simulate = "ok"

\* C1: verify_payment always returns a VerifyResponse and never raises; a
\* failure whose text is not a known reason code is reported as
\* isValid=false with invalidReason "unexpected_verify_error".
C1_VerifyNeverRaises ==
    VerifyEnded =>
        /\ raised = <<>>
        /\ Len(verify_response) = 1
        /\ (exc # <<>> /\ exc[1].msg \notin ERROR_REASONS) =>
              /\ ~verify_response[1].is_valid
              /\ verify_response[1].invalid_reason = "unexpected_verify_error"

\* C2: settle_payment always returns a SettleResponse and never raises; a
\* failure that is not a known reason code is reported as success=false with
\* errorReason "unexpected_settle_error".
C2_SettleNeverRaises ==
    SettleEnded =>
        /\ raised = <<>>
        /\ Len(settle_response) = 1
        /\ (exc # <<>> /\ IsValueError(exc[1]) /\ exc[1].msg \notin ERROR_REASONS) =>
              /\ ~settle_response[1].success
              /\ settle_response[1].error_reason = "unexpected_settle_error"

\* C3: for a well-formed transfer whose simulation reports no error,
\* verify_payment returns isValid=true exactly when the little-endian u64 at
\* data bytes 1..8 of instruction 2 is >= int(maxAmountRequired), and
\* amount_mismatch when it is smaller.
C3_AmountDecidesValidity ==
    (VerifyEnded /\ TransferIsWellFormed /\ SimulationClean) =>
        /\ Len(verify_response) = 1
        /\ verify_response[1].is_valid <=> (TransferAmount >= RequiredAmount)
        /\ (TransferAmount < RequiredAmount) =>
              verify_response[1].invalid_reason =
                  "invalid_exact_svm_payload_transaction_amount_mismatch"

\* C4: the scheme/network guard runs before the decode and before
\* simulation: a scheme other than "exact" on either side yields
\* unsupported_scheme, otherwise a network mismatch yields invalid_network,
\* whatever the transaction string holds, and nothing but the guard has run.
C4_GuardComesFirst ==
    (VerifyOver /\ (~SchemesAreExact
                      \/ payload.network # payment_requirements.network)) =>
        /\ verify_response =
              <<VerifyResponse(FALSE,
                    IF SchemesAreExact THEN "invalid_network" ELSE "unsupported_scheme",
                    verify_response[1].payer)>>
        /\ events = {"verify_schemes_and_networks"}

\* C4 happens: a network mismatch on a transfer that is otherwise well
\* formed, answered with invalid_network
C4_Witness ==
    /\ VerifyEnded
    /\ SchemesAreExact
    /\ payload.network = "solana-devnet" /\ payment_requirements.network = "solana"
    /\ PayloadDecodes
    /\ TransactionIsWellFormed
    /\ TransferAmount = RequiredAmount
    /\ verify_response[1].invalid_reason = "invalid_network"

\* C5: a payload made by create_payment_payload for the same requirements,
\* with a clean simulation, verifies with isValid=true and payer = the
\* client's public key.
C5_BuilderPayloadVerifies ==
    (/\ VerifyEnded
     /\ GuardAdmits
     /\ IntParses(payment_requirements.max_amount_required)
     /\ payload = create_payment_payload(payment_requirements)
     /\ SimulationClean) =>
        verify_response = <<VerifyResponse(TRUE, None, "Client")>>

\* C6: an invalid verification makes settle_payment return success=false,
\* errorReason = the verification's invalidReason, transaction "" and the
\* verification's payer, without signing and without sendTransaction.
C6_InvalidVerificationSettlesNothing ==
    (SettleEnded /\ Len(verify_response) = 1 /\ ~verify_response[1].is_valid) =>
        /\ settle_response =
              <<SettleResponse(FALSE, verify_response[1].invalid_reason,
                               payload.network, "", verify_response[1].payer)>>
        /\ sendCalls = 0
        /\ events \cap {"sign_message", "sendTransaction"} = {}

\* what sections 4.3 and 4.4 of the specification call a valid verification:
\* a well-formed transfer of at least the required amount whose simulation
\* is clean
PaymentIsValid ==
    TransferIsWellFormed /\ TransferAmount >= RequiredAmount /\ SimulationClean

\* C8: for a valid verification, a JSON-RPC error answer to sendTransaction
\* makes settle_payment return success=false, errorReason = the stringified
\* gateway error and transaction ""; an answer with neither error nor
\* signature gives errorReason "transaction_failed".
C8_SubmissionFailureIsReported ==
    (SettleEnded /\ PaymentIsValid) =>
        /\ Len(settle_response) = 1
        /\ gateway.send = "rpc_error" =>
              /\ ~settle_response[1].success
              /\ settle_response[1].error_reason = "RPC error: {...}"
              /\ settle_response[1].transaction = ""
        /\ gateway.send = "empty_signature" =>
              /\ ~settle_response[1].success
              /\ settle_response[1].error_reason = "transaction_failed"

\* C9: the confirmation wait posts at most 40 getSignatureStatuses requests
\* and stops at the first one answered with a status; when no poll is
\* answered with a status settle_payment still returns success=true with the
\* signature obtained from sendTransaction.
C9_UnconfirmedSettlementSucceeds ==
    /\ pollCalls <= max_attempts
    /\ (pc = "done" /\ gateway.poll \in {"status", "status_err"}
          /\ gateway.poll_at > 0 /\ pollCalls > 0) => pollCalls <= gateway.poll_at
    /\ (SettleEnded /\ PaymentIsValid /\ gateway.send = "signature"
          /\ gateway.poll_at = 0) =>
          /\ Len(settle_response) = 1
          /\ settle_response[1].success
          /\ settle_response[1].transaction = "5ig"

\* C10: a settle_payment invocation posts at most one sendTransaction
\* request, and exactly one when its verification is valid.
C10_ExactlyOneSubmission ==
    call = "settle_payment" =>
        /\ sendCalls <= 1
        /\ (pc = "done" /\ PaymentIsValid) => sendCalls = 1

\* verification did not come out valid: verify_payment raised or returned
\* isValid=false
VerificationNotValid == verify_response = <<>> \/ ~verify_response[1].is_valid

VerifyReasonCodes ==
    { "unsupported_scheme",
      "invalid_network",
      "invalid_exact_svm_payload_transaction",
      "invalid_exact_svm_payload_transaction_instructions_length",
      "invalid_exact_svm_payload_transaction_instructions",
      "invalid_exact_svm_payload_transaction_instructions_compute_price_instruction",
      "invalid_exact_svm_payload_transaction_instructions_compute_price_instruction_too_high",
      "invalid_exact_svm_payload_transaction_not_a_transfer_instruction",
      "invalid_exact_svm_payload_transaction_amount_mismatch",
      "invalid_exact_svm_payload_transaction_simulation_failed",
      "unexpected_verify_error" }

\* C13: every invalidReason verify_payment returns is a reason code of
\* ERROR_REASONS that its checks raise, or unexpected_verify_error; the text
\* of any other failure is never the reason.
C13_VerifyReasonsAreClosed ==
    (VerifyOver /\ Len(verify_response) = 1) =>
        /\ ~verify_response[1].is_valid =>
              /\ verify_response[1].invalid_reason \in VerifyReasonCodes
              /\ verify_response[1].invalid_reason \in ERROR_REASONS
        /\ verify_response[1].is_valid => verify_response[1].invalid_reason = None
        /\ (exc # <<>> /\ exc[1].msg \notin ERROR_REASONS) =>
              verify_response[1].invalid_reason # exc[1].msg

\* C13 happens: a failure of a lower layer (struct.unpack on a short price
\* buffer) is answered with the catch-all code
C13_Witness ==
    /\ VerifyEnded
    /\ exc # <<>> /\ exc[1].type = "struct.error"
    /\ Len(verify_response) = 1
    /\ verify_response[1].invalid_reason = "unexpected_verify_error"

\* the closed set of the error taxonomy for settlement
SettleReasonCodes ==
    VerifyReasonCodes \cup {"unexpected_settle_error", "transaction_failed"}

\* texts of failures below the engines: exceptions of the gateway functions
\* and of the interpreter
RawFailureTexts ==
    { "RPC error: {...}", "transport failure", "'result'", "poll failure",
      "name 'base64' is not defined", "unpack requires a buffer of 8 bytes",
      "invalid literal for int() with base 10" }

C15_FewerThanThreeInstructions ==
    (VerifyOver /\ GuardAdmits /\ PayloadDecodes
        /\ Len(PayloadTx.instructions) < 3) =>
        /\ verify_response =
              <<VerifyResponse(FALSE,
                    "invalid_exact_svm_payload_transaction_instructions_length",
                    verify_response[1].payer)>>
        /\ "simulate_transaction" \notin events

\* C15 happens: exactly two instructions, both of them acceptable
\* compute-budget instructions, are rejected for their number
C15_Witness ==
    /\ VerifyEnded /\ GuardAdmits /\ PayloadDecodes
    /\ Len(PayloadTx.instructions) = 2
    /\ verify_compute_budget_instructions(PayloadTx, PayloadTx.instructions) = <<>>
    /\ ProgramId(PayloadTx, PayloadTx.instructions[2]) = COMPUTE_BUDGET_PROGRAM_ID
    /\ Len(verify_response) = 1
    /\ verify_response[1].invalid_reason =
          "invalid_exact_svm_payload_transaction_instructions_length"

\* the first instruction is a "set compute unit price" directive: tag byte 3
\* and an 8-byte price, addressed to the compute-budget program
PriceIsSet ==
    /\ ProgramId(PayloadTx, PayloadTx.instructions[1]) = COMPUTE_BUDGET_PROGRAM_ID
    /\ Len(PayloadTx.instructions[1].data) = 9
    /\ PayloadTx.instructions[1].data[1] = 3

Price == UnpackU64LE(SubSeq(PayloadTx.instructions[1].data, 2, 9))

\* C16: a price directive on instruction 0 passes the compute-budget check
\* for every price up to and including 5,000,000 and is answered with
\* ..._compute_price_instruction_too_high for every price from 5,000,001; an
\* instruction 0 of another program is answered with
\* ..._compute_price_instruction.
C16_ComputePriceCeiling ==
    (VerifyOver /\ GuardAdmits /\ PayloadDecodes
        /\ Len(PayloadTx.instructions) >= 3) =>
        /\ ProgramId(PayloadTx, PayloadTx.instructions[1]) # COMPUTE_BUDGET_PROGRAM_ID =>
              verify_response =
                 <<VerifyResponse(FALSE,
                      "invalid_exact_svm_payload_transaction_instructions_compute_price_instruction",
                      verify_response[1].payer)>>
        /\ (PriceIsSet /\ Price > MaxMicroLamports) =>
              verify_response =
                 <<VerifyResponse(FALSE,
                      "invalid_exact_svm_payload_transaction_instructions_compute_price_instruction_too_high",
                      verify_response[1].payer)>>
        /\ (PriceIsSet /\ Price <= MaxMicroLamports) =>
              /\ verify_compute_budget_instructions(
                     PayloadTx, SubSeq(PayloadTx.instructions, 1, 2)) = <<>>
              /\ exc # <<>>
              /\ exc[1].msg \notin
                    { "invalid_exact_svm_payload_transaction_instructions_compute_price_instruction",
                      "invalid_exact_svm_payload_transaction_instructions_compute_price_instruction_too_high",
                      "invalid_exact_svm_payload_transaction_instructions_length" }

\* C16 happens: a price of exactly 5,000,000 has passed, the verification
\* having gone on to reject the transfer's amount
C16_Witness ==
    /\ VerifyEnded /\ GuardAdmits /\ PayloadDecodes
    /\ Len(PayloadTx.instructions) >= 3
    /\ PriceIsSet /\ Price = MaxMicroLamports
    /\ Len(verify_response) = 1
    /\ verify_response[1].invalid_reason =
          "invalid_exact_svm_payload_transaction_amount_mismatch"

\* the checks that precede the transfer check have passed
ReachesTransferCheck ==
    /\ GuardAdmits /\ PayloadDecodes
    /\ Len(PayloadTx.instructions) >= 3
    /\ verify_compute_budget_instructions(
           PayloadTx, SubSeq(PayloadTx.instructions, 1, 2)) = <<>>

\* C17: an instruction 2 of a program other than the two token programs is
\* answered with ..._not_a_transfer_instruction; one of a token program with
\* fewer than 9 data bytes is answered with ..._instructions, the amount
\* (and the required amount) not having been read.
C17_TransferProgramAndLength ==
    (VerifyOver /\ ReachesTransferCheck) =>
        /\ ~IsTokenProgram(ProgramId(PayloadTx, PayloadTx.instructions[3])) =>
              verify_response =
                 <<VerifyResponse(FALSE,
                      "invalid_exact_svm_payload_transaction_not_a_transfer_instruction",
                      verify_response[1].payer)>>
        /\ (IsTokenProgram(ProgramId(PayloadTx, PayloadTx.instructions[3]))
              /\ Len(PayloadTx.instructions[3].data) < 9) =>
              /\ exc = <<ValueError("invalid_exact_svm_payload_transaction_instructions")>>
              /\ verify_response =
                    <<VerifyResponse(FALSE,
                         "invalid_exact_svm_payload_transaction_instructions",
                         verify_response[1].payer)>>

\* C17 happens: a token-program instruction of 3 data bytes is rejected for
\* its length although the required amount is not even a number
C17_Witness ==
    /\ VerifyEnded /\ ReachesTransferCheck
    /\ IsTokenProgram(ProgramId(PayloadTx, PayloadTx.instructions[3]))
    /\ Len(PayloadTx.instructions[3].data) = 3
    /\ ~IntParses(payment_requirements.max_amount_required)
    /\ Len(verify_response) = 1
    /\ verify_response[1].invalid_reason =
          "invalid_exact_svm_payload_transaction_instructions"

\* C18: with the guard passed, a transaction string that cannot be
\* base64-decoded or parsed makes verify_payment return isValid=false,
\* invalidReason invalid_exact_svm_payload_transaction and payer null; no
\* gateway call is made and no exception leaves.
C18_UndecodablePayload ==
    (VerifyOver /\ GuardAdmits /\ ~PayloadDecodes) =>
        /\ verify_response =
              <<VerifyResponse(FALSE, "invalid_exact_svm_payload_transaction", None)>>
        /\ raised = <<>>
        /\ events \cap {"transaction_introspection", "simulate_transaction",
                         "sendTransaction", "getSignatureStatuses"} = {}

\* C18 happens: a string that is not base64 has been answered
C18_Witness ==
    /\ VerifyEnded /\ GuardAdmits
    /\ ~payload.payload.transaction.b64
    /\ Len(verify_response) = 1
    /\ verify_response[1].invalid_reason = "invalid_exact_svm_payload_transaction"
    /\ verify_response[1].payer = None

\* the gateway's simulation of the transaction reports an error, at the top
\* level of the result or as value.err
SimulationReportsError == gateway.simulate \in {"err", "value_err"}

\* C19: with every structural check passed, a simulation that reports an
\* error (top-level err or nested value.err) is answered with
\* invalid_exact_svm_payload_transaction_simulation_failed, and
\* isValid=true is returned only for a simulation without error.
C19_SimulationErrorFails ==
    (VerifyEnded /\ TransferIsWellFormed /\ TransferAmount >= RequiredAmount) =>
        /\ SimulationReportsError =>
              verify_response =
                 <<VerifyResponse(FALSE,
                      "invalid_exact_svm_payload_transaction_simulation_failed",
                      verify_response[1].payer)>>
        /\ (Len(verify_response) = 1 /\ verify_response[1].is_valid) =>
              SimulationClean

\* every check verify_payment makes ahead of the simulation has passed, and
\* the gateway's simulation is clean: the transaction is one verify_payment
\* has nothing left to reject
PassesEveryCheck ==
    VerifyOver /\ "simulate_transaction" \in events /\ SimulationClean

Returned(f) == call = f /\ pc = "done"

\* instructions, in order, whose program is a token program and which
\* reference at least 4 accounts
TokenTransfers(tx) ==
    { i \in 1..Len(tx.instructions) :
        /\ InTable(tx, tx.instructions[i].program_id_index)
        /\ IsTokenProgram(ProgramId(tx, tx.instructions[i]))
        /\ Len(tx.instructions[i].accounts) >= 4 }

FirstTokenTransfer(tx) ==
    CHOOSE i \in TokenTransfers(tx) : \A j \in TokenTransfers(tx) : i <= j

\* C21: get_token_payer_from_transaction never raises; it returns the
\* account at position 3 of the first instruction of a token program with at
\* least 4 accounts, and None when the transaction has no such instruction
C21_PayerOfFirstTokenInstruction ==
    Returned("get_token_payer_from_transaction") =>
        /\ ret[1].exc = <<>>
        /\ IF TokenTransfers(arg) = {}
           THEN ret[1].value = None
           ELSE LET ix == arg.instructions[FirstTokenTransfer(arg)]
                IN /\ InTable(arg, ix.accounts[4])
                   /\ ret[1].value = AccountAt(arg, ix.accounts[4])

(***************************************************************************)
(* Client payload builder against the validator                            *)
(***************************************************************************)
\* requirements create_payment_payload returns a payload for: create_rpc_client
\* knows the network, int() and struct.pack("<Q") take the amount, and the
\* PaymentPayload it constructs validates
BuilderAccepts(req) ==
    /\ req.scheme = "exact"
    /\ req.network \in {"solana", "solana-devnet"}
    /\ IntParses(req.max_amount_required)
    /\ IntOf(req.max_amount_required) >= 0

BuiltPayload ==
    /\ call \in {"verify_payment", "settle_payment"}
    /\ BuilderAccepts(payment_requirements)
    /\ payload = create_payment_payload(payment_requirements)

\* C22: the builder's transaction has exactly three instructions, compute-unit
\* price, compute-unit limit, then a token transfer of exactly
\* maxAmountRequired units whose authority is the client; it carries the
\* client's signature alone, and the validator lets it through to the
\* simulation for the same requirements
C22_BuilderEmitsTheValidatedShape ==
    BuiltPayload =>
        /\ PayloadDecodes
        /\ Len(PayloadTx.instructions) = 3
        /\ \A i \in 1..2 :
              ProgramId(PayloadTx, PayloadTx.instructions[i]) = COMPUTE_BUDGET_PROGRAM_ID
        /\ PayloadTx.instructions[1].data = <<3>> \o PackU64LE(BuilderPrice)
        /\ PayloadTx.instructions[2].data[1] = 2
        /\ LET transfer == PayloadTx.instructions[3]
           IN /\ ProgramId(PayloadTx, transfer) = TOKEN_PROGRAM
              /\ transfer.data[1] = 3
              /\ UnpackU64LE(Slice1To9(transfer.data))
                     = IntOf(payment_requirements.max_amount_required)
              /\ AccountAt(PayloadTx, transfer.accounts[Len(transfer.accounts)]) = "Client"
        /\ PayloadTx.signatures = <<"sig:Client">>
        /\ transaction_introspection(payload.payload, payment_requirements) = <<>>
        /\ "transaction_introspection" \in events =>
               pc # "except" \/ "simulate_transaction" \in events

\* the validator has let a builder payload for 255 units through
C22_Witness ==
    /\ BuiltPayload
    /\ payment_requirements.max_amount_required = DecimalString(255)
    /\ "transaction_introspection" \in events
    /\ pc = "simulate_transaction"

(***************************************************************************)
(* Invocations side by side against each invocation on its own             *)
(***************************************************************************)
\* the exception that ends the try block of verify_payment when nothing
\* else runs: the first of guard, decode, validator and simulation to raise
FirstException(p, req) ==
    LET g == verify_schemes_and_networks(p, req)
        d == decode_transaction_from_payload(p.payload)
    IN IF g # <<>> THEN g
       ELSE IF d.exc # <<>> THEN d.exc
       ELSE LET v == transaction_introspection(p.payload, req)
            IN IF v # <<>> THEN v ELSE simulate_transaction(d.value[1])

VerifyAlone(p, req) == VerifyHandler(FirstException(p, req)[1], p)

SettleAlone(p, req) ==
    LET v == VerifyAlone(p, req)
    IN IF v.raised # <<>> THEN [response |-> <<>>, raised |-> v.raised]
       ELSE IF SettleResponseValidates(p.network)
       THEN [response |-> <<SettleResponse(FALSE, v.response[1].invalid_reason,
                                           p.network, "", v.response[1].payer)>>,
             raised |-> <<>>]
       ELSE [response |-> <<>>,
             raised |-> <<Exception("ValidationError",
                                    "1 validation error for SettleResponse")>>]

SendAlone(gw) ==
    LET o == SendOutcome(gw.send)
        answered == {n \in 1..max_attempts : PollOutcome(PollReply(gw, n), o.sig) # <<>>}
    IN IF o.result # <<>> THEN o.result
       ELSE IF answered = {} THEN <<SendResult(TRUE, o.sig, <<>>)>>
       ELSE PollOutcome(
                PollReply(gw, CHOOSE n \in answered : \A m \in answered : n <= m),
                o.sig)

\* a finished invocation ended as it ends on its own
AsAlone(inv) ==
    inv.pc = "done" =>
        CASE inv.call = "verify_payment" ->
                LET v == VerifyAlone(inv.payload, inv.payment_requirements)
                IN inv.verify_response = v.response /\ inv.raised = v.raised
          [] inv.call = "settle_payment" ->
                LET r == SettleAlone(inv.payload, inv.payment_requirements)
                IN inv.settle_response = r.response /\ inv.raised = r.raised
          [] OTHER -> inv.send_result = SendAlone(inv.gateway)

VersionRejected ==
    Returned("PaymentPayload") /\ arg.x402_version # 1 =>
        /\ ret[1].value = <<>>
        /\ Len(ret[1].exc) = 1
        /\ ret[1].exc[1].type = "ValidationError"
        /\ "Only x402 version 1 is supported" \in ret[1].exc[1].errors

C26_AmountIsANonNegativeInteger ==
    Returned("PaymentRequirements") =>
        /\ ret[1].exc = <<>> =>
              /\ IntParses(ret[1].value[1].max_amount_required)
              /\ IntOf(ret[1].value[1].max_amount_required) >= 0
        /\ (\/ ~IntParses(arg.max_amount_required)
            \/ IntOf(arg.max_amount_required) < 0) =>
              /\ ret[1].value = <<>>
              /\ Len(ret[1].exc) = 1
              /\ ret[1].exc[1].type = "ValidationError"

\* "-5" with an accepted scheme and network has been refused
C26_Witness ==
    /\ Returned("PaymentRequirements")
    /\ arg.max_amount_required = <<"-", "5">>
    /\ arg.scheme = "exact" /\ arg.network = "solana"
    /\ ret[1].exc # <<>>
    /\ ret[1].exc[1].errors = {"max_amount_required must be non-negative"}

\* C27: create_signer_from_bytes on bytes(keypair) of a generated keypair
\* returns a Keypair
C27_SignerFromSerializedKeypair ==
    Returned("create_signer_from_bytes") /\ arg \in GeneratedKeypairs =>
        ret[1].exc = <<>> /\ Len(ret[1].value) = 1

FailedAfterDecoding ==
    /\ VerifyEnded
    /\ PayloadDecodes
    /\ exc # <<>>
    /\ IsValueError(exc[1]) => exc[1].msg \in ERROR_REASONS

ExtractablePayer ==
    LET r == get_token_payer_from_transaction(PayloadTx)
    IN IF r.exc # <<>> THEN None ELSE r.value

\* C30: a verification that fails with a reason code of the list or with
\* unexpected_verify_error, on a payload that decodes, returns the payer the
\* decoded transaction yields, None when it yields none or the extraction
\* raises; the reason is the one of the caught exception whatever the
\* extraction does, and nothing is raised
C30_BestEffortPayer ==
    FailedAfterDecoding =>
        /\ raised = <<>>
        /\ verify_response =
              <<VerifyResponse(FALSE,
                               IF IsValueError(exc[1]) THEN exc[1].msg
                               ELSE "unexpected_verify_error",
                               ExtractablePayer)>>

\* the extraction raised inside the handler of a recognized reason
C30_Witness ==
    /\ FailedAfterDecoding
    /\ get_token_payer_from_transaction(PayloadTx).exc # <<>>
    /\ verify_response =
          <<VerifyResponse(FALSE,
                "invalid_exact_svm_payload_transaction_instructions_length", None)>>

(***************************************************************************)
(* Short buffers                                                           *)
(***************************************************************************)
\* the reason codes of wallet.py's list that name a defect of the payload's
\* transaction
TransactionReasonCodes ==
    ERROR_REASONS \ {"unsupported_scheme", "invalid_network",
                     "unexpected_verify_error", "unexpected_settle_error"}

\* instruction 0 is a price directive cut short: tag 3 and 2 to 8 bytes
PriceIsCutShort ==
    /\ GuardAdmits /\ PayloadDecodes
    /\ Len(PayloadTx.instructions) >= 3
    /\ ProgramId(PayloadTx, PayloadTx.instructions[1]) = COMPUTE_BUDGET_PROGRAM_ID
    /\ Len(PayloadTx.instructions[1].data) \in 2..8
    /\ PayloadTx.instructions[1].data[1] = 3

\* the transfer check is reached with fewer than 9 data bytes
TransferIsCutShort ==
    /\ ReachesTransferCheck
    /\ IsTokenProgram(ProgramId(PayloadTx, PayloadTx.instructions[3]))
    /\ Len(PayloadTx.instructions[3].data) < 9

\* C31: a price directive of 2 to 8 bytes on instruction 0, like a transfer
\* of fewer than 9 data bytes, is answered with a reason code that names the
\* transaction's defect, never through a fault of struct.unpack
C31_ShortBuffersGetAReasonCode ==
    (VerifyEnded /\ (PriceIsCutShort \/ TransferIsCutShort)) =>
        /\ Len(verify_response) = 1
        /\ verify_response[1].invalid_reason \in TransactionReasonCodes
        /\ exc[1].type # "struct.error"

(***************************************************************************)
(* Signature and status after the submission                               *)
(***************************************************************************)
\* sendTransaction answered with a signature
SignatureObtained == gateway.send = "signature"
ObtainedSignature == SendOutcome("signature").sig

\* C32: once sendTransaction has answered with a signature, the
\* SettleResponse carries it in its transaction field whatever the polls
\* answer: in settle_payment's response for a valid payment, and in what
\* settle_payment makes of the tuple send_and_confirm_transaction returns
C32_SignatureSurvivesPolling ==
    /\ (SettleEnded /\ PaymentIsValid /\ SignatureObtained) =>
          /\ Len(settle_response) = 1
          /\ settle_response[1].transaction = ObtainedSignature
    /\ (SendEnded /\ SignatureObtained) =>
          SettleAfterSend(send_result[1], payload).transaction = ObtainedSignature

\* a poll of the confirmation wait is answered with a status whose err field
\* is set: the submitted transaction failed on chain
FailureStatusPolled ==
    /\ SignatureObtained
    /\ gateway.poll = "status_err"
    /\ gateway.poll_at \in 1..max_attempts

PriceAboveCeilingAt(i) ==
    /\ Len(PayloadTx.instructions) >= i
    /\ InTable(PayloadTx, PayloadTx.instructions[i].program_id_index)
    /\ ProgramId(PayloadTx, PayloadTx.instructions[i]) = COMPUTE_BUDGET_PROGRAM_ID
    /\ Len(PayloadTx.instructions[i].data) >= 9
    /\ PayloadTx.instructions[i].data[1] = 3
    /\ UnpackU64LE(Slice1To9(PayloadTx.instructions[i].data)) > MaxMicroLamports

AcceptedPayer == get_token_payer_from_transaction(PayloadTx)

EarliestViolatedRule ==
    LET ixs == PayloadTx.instructions
    IN IF Len(ixs) < 3
       THEN "invalid_exact_svm_payload_transaction_instructions_length"
       ELSE IF ProgramId(PayloadTx, ixs[1]) # COMPUTE_BUDGET_PROGRAM_ID
       THEN "invalid_exact_svm_payload_transaction_instructions_compute_price_instruction"
       ELSE IF PriceAboveCeilingAt(1)
       THEN "invalid_exact_svm_payload_transaction_instructions_compute_price_instruction_too_high"
       ELSE IF ~IsTokenProgram(ProgramId(PayloadTx, ixs[3]))
       THEN "invalid_exact_svm_payload_transaction_not_a_transfer_instruction"
       ELSE IF Len(ixs[3].data) < 9
       THEN "invalid_exact_svm_payload_transaction_instructions"
       ELSE IF /\ IntParses(payment_requirements.max_amount_required)
               /\ TransferAmount < RequiredAmount
       THEN "invalid_exact_svm_payload_transaction_amount_mismatch"
       ELSE None

\* C36: a transaction that violates one or several rules of the validator
\* is rejected with the reason code of the earliest violated rule
C36_EarliestViolatedRuleIsReported ==
    (VerifyEnded /\ GuardAdmits /\ PayloadDecodes /\ EarliestViolatedRule # None) =>
        /\ Len(verify_response) = 1
        /\ verify_response[1].invalid_reason = EarliestViolatedRule

(***************************************************************************)
(* What of the requirements a verification depends on                      *)
(***************************************************************************)
\* two verify_payment invocations on the same payload and gateway whose
\* requirements agree on scheme, network and maxAmountRequired
SameButForPayee(a, b) ==
    /\ a.call = "verify_payment" /\ b.call = "verify_payment"
    /\ a.payload = b.payload
    /\ a.gateway = b.gateway
    /\ a.payment_requirements.scheme = b.payment_requirements.scheme
    /\ a.payment_requirements.network = b.payment_requirements.network
    /\ a.payment_requirements.max_amount_required
          = b.payment_requirements.max_amount_required

\* C37: two verifications of the same payload with the same gateway replies,
\* under requirements that differ at most in payTo, asset and
\* extra.feePayer, end with the same response
C37_PayeeDoesNotChangeTheResponse ==
    (/\ suspended # <<>>
     /\ pc = "done" /\ suspended[1].pc = "done"
     /\ SameButForPayee(Invocation, suspended[1])) =>
        /\ verify_response = suspended[1].verify_response
        /\ raised = suspended[1].raised

\* both verifications have answered, one for the recipient the transfer
\* pays, one for another recipient
C37_Witness ==
    /\ suspended # <<>>
    /\ pc = "done" /\ suspended[1].pc = "done"
    /\ SameButForPayee(Invocation, suspended[1])
    /\ payment_requirements.pay_to = "Recipient"
    /\ suspended[1].payment_requirements.pay_to = "Attacker"
    /\ Len(verify_response) = 1
    /\ "simulate_transaction" \in events
====
